---- MODULE Spec2Model ----
(***************************************************************************)
(* Gubernator (src/gubernator/main.py): the memcache-memoized storage      *)
(* accessors gcs_read / gcs_ls, the build_details aggregator built on      *)
(* them, and the decompress / parse_junit helpers it feeds.                *)
(*                                                                         *)
(* Python values are records tagged by "kind"; an operation that can raise *)
(* returns [ok, val, exc].  Every worker is one request-serving process    *)
(* with its own CURRENT_VERSION_ID; memcache and the bucket are shared.    *)
(***************************************************************************)
EXTENDS Integers, Sequences, FiniteSets, TLC

VARIABLES
    storage,   \* the bucket: object path -> bytes (DOMAIN = the objects present)
    cache,     \* memcache: <<namespace, key>> -> [value, expiry]
    now,       \* wall clock, in seconds
    version,   \* worker -> os.environ['CURRENT_VERSION_ID'] of its process
    stack,     \* worker -> its Python call stack of wrapped() frames
    call,      \* worker -> instrumentation of its current / last top-level call
    lastAdd,   \* <<namespace, key>> -> the value most recently passed to memcache.add
    ticks,     \* how many times the clock has advanced
    response,  \* worker -> the request it is serving and its webapp2 response
    probe      \* one application of a pure helper: [fn, arg, out, done]

vars == <<storage, cache, now, version, stack, call, lastAdd, ticks,
          response, probe>>

----------------------------------------------------------------------------
(* Bounds of the model *)

MaxCalls == 3        \* top-level calls made in one behaviour
MaxTicks == 1        \* clock advances in one behaviour
MaxShards == 3       \* length of the short shard runs put in the bucket
MaxDigits == 2       \* length of the short digit runs given to pad_numbers
MaxParams == 2       \* children of a test case element given to parse_junit
MaxBytes == 3        \* length of the byte strings given to decompress
MaxSlug == 3         \* length of the short strings given to do_slugify
MaxLines == 3        \* lines of the build logs given to load_test_ts_range

Workers == {1, 2}
Versions == {"v1", "v2"}

----------------------------------------------------------------------------
(* Python values *)

None == [kind |-> "None"]

Str(gz, fmt, doc) == [kind |-> "str", gz |-> gz, fmt |-> fmt, doc |-> doc]

EmptyStr == Str("no", "empty", <<>>)

PyList(items) == [kind |-> "list", items |-> items]

PyTuple(started, finished, failures) ==
    [kind |-> "tuple", started |-> started, finished |-> finished,
     failures |-> failures]

PyDict(doc) == [kind |-> "dict", doc |-> doc]

Text(s) == [kind |-> "text", s |-> s]

\* Python truth value: None, '' and [] are falsy.
Truthy(v) ==
    CASE v.kind = "None" -> FALSE
      [] v.kind = "str" -> v # EmptyStr
      [] v.kind = "list" -> v.items # <<>>
      [] OTHER -> TRUE

Ok(v) == [ok |-> TRUE, val |-> v, exc |-> "none"]

Raises(e) == [ok |-> FALSE, val |-> None, exc |-> e]

----------------------------------------------------------------------------
(* '%02d' % n *)

Digit(d) ==
    CASE d = 0 -> "0" [] d = 1 -> "1" [] d = 2 -> "2" [] d = 3 -> "3"
      [] d = 4 -> "4" [] d = 5 -> "5" [] d = 6 -> "6" [] d = 7 -> "7"
      [] d = 8 -> "8" [] d = 9 -> "9"

RECURSIVE IntToStr(_)
IntToStr(n) == IF n < 10 THEN Digit(n) ELSE IntToStr(n \div 10) \o Digit(n % 10)

Fmt02d(n) == IF n < 10 THEN "0" \o Digit(n) ELSE IntToStr(n)

----------------------------------------------------------------------------
(* google.appengine.api.memcache as main.py uses it *)

EntryLive(c, t, k) == k \in DOMAIN c /\ t < c[k].expiry

\* memcache.get(key, namespace=namespace): the value, or None when there is none
memcache_get(c, t, ns, key) ==
    IF EntryLive(c, t, <<ns, key>>) THEN c[<<ns, key>>].value ELSE None

memcache_set(c, t, ns, key, value, ttl) ==
    [k \in DOMAIN c \cup {<<ns, key>>} |->
        IF k = <<ns, key>> THEN [value |-> value, expiry |-> t + ttl] ELSE c[k]]

\* memcache.add(key, value, time, namespace=namespace): stores only when the
\* key holds no live item
memcache_add_overwrites(c, t, ns, key, value, ttl) ==
    memcache_set(c, t, ns, key, value, ttl)

memcache_add(c, t, ns, key, value, ttl) ==
    IF EntryLive(c, t, <<ns, key>>) THEN c ELSE memcache_set(c, t, ns, key, value, ttl)

----------------------------------------------------------------------------
(* memcache_memoize(prefix, exp, neg_exp) and its three uses *)

DefaultExp == 3600
DefaultNegExp == 60
GcsLsExp == 60
BuildDetailsExp == 14400

Ops == {"gcs_read", "gcs_ls", "build_details"}

PrefixNone(op) == ""

Prefix(op) ==
    CASE op = "gcs_read" -> "gs://"
      [] op = "gcs_ls" -> "gs-ls://"
      [] op = "build_details" -> "build-details://"

Exp(op) ==
    CASE op = "gcs_read" -> DefaultExp
      [] op = "gcs_ls" -> GcsLsExp
      [] op = "build_details" -> BuildDetailsExp

NegExpAsDay(op) == 24 * DefaultExp

NegExp(op) == DefaultNegExp

\* for n in xrange(1, 99)
XRangeStart == 1
XRangeStop == 99

InXRangeUnbounded(n) == XRangeStart <= n

InXRange(n) == XRangeStart <= n /\ n < XRangeStop

\* key = prefix + arg
KeyNoArg(op, arg) == Prefix(op)

Key(op, arg) == Prefix(op) \o arg

\* namespace = os.environ['CURRENT_VERSION_ID']
NamespaceShared(w) == "v1"

Namespace(w) == version[w]

\* data = memcache.get(key, namespace=namespace)
WrappedGetNoPrefix(w, op, arg) == memcache_get(cache, now, Namespace(w), arg)

WrappedGet(w, op, arg) == memcache_get(cache, now, Namespace(w), Key(op, arg))

\* if data is not None: return data
IsHitTruthy(data) == Truthy(data)

IsHit(data) == data # None

\* if data: memcache.add(key, data, exp, ...) else: memcache.add(key, data, neg_exp, ...)
WrappedTtlAlwaysExp(op, data) == Exp(op)

WrappedTtl(op, data) == IF Truthy(data) THEN Exp(op) ELSE NegExp(op)

WrappedAdd(w, op, arg, data) ==
    memcache_add(cache, now, Namespace(w), Key(op, arg), data, WrappedTtl(op, data))

----------------------------------------------------------------------------
(* The bucket: object names, and what cloudstorage answers *)

BuildDir == "/kubernetes-jenkins/logs/kubernetes-e2e-gce/7"

StartedPath(d) == d \o "/started.json"

FinishedPath(d) == d \o "/finished.json"

\* '%s/artifacts/junit_%02d.xml' % (build_dir, n)
JunitPath(d, n) == d \o "/artifacts/junit_" \o Fmt02d(n) \o ".xml"

\* the exception classes derived from cloudstorage.errors.Error
GcsErrors ==
    {"NotFoundError", "ForbiddenError", "TransientError", "ServerError", "TimeoutError"}

\* the failures a request for an object that exists can still end in
Faults == GcsErrors \ {"NotFoundError"}

\* with gcs.open(path) as f: return f.read()
GcsOpenRead(path, fault) ==
    IF fault # "none" THEN Raises(fault)
    ELSE IF path \in DOMAIN storage THEN Ok(storage[path])
    ELSE Raises("NotFoundError")

\* except gcs.errors.Error:
CaughtOnlyNotFound(exc) == exc = "NotFoundError"

CaughtByGcsRead(exc) == exc \in GcsErrors

\* the body of gcs_read
gcs_read_func(path, fault) ==
    LET r == GcsOpenRead(path, fault) IN
    IF r.ok THEN r
    ELSE IF CaughtByGcsRead(r.exc) THEN Ok(None)
    ELSE r

\* job_dir = '/%s/%s%s/' % (bucket, prefix, job)
JobDir(bucket, prefix, job) == "/" \o bucket \o "/" \o prefix \o job \o "/"

\* jobs_dir = '/%s/%s/' % (bucket, prefix)
JobsDir(bucket, prefix) == "/" \o bucket \o "/" \o prefix \o "/"

\* gcs.listbucket(path, delimiter='/'): the immediate children, in name
\* order; the job has builds 7, 9 and 10, of which 7 is the one looked into
ListBucket(path) ==
    IF path = JobsDir("kubernetes-jenkins", "logs")
    THEN IF DOMAIN storage = {} THEN <<>>
         ELSE <<JobDir("kubernetes-jenkins", "logs/", "kubernetes-e2e-gce")>>
    ELSE IF path = JobDir("kubernetes-jenkins", "logs/", "kubernetes-e2e-gce")
    THEN IF DOMAIN storage = {} THEN <<>>
         ELSE <<path \o "10/", BuildDir \o "/", path \o "9/">>
    ELSE IF path = BuildDir \o "/"
    THEN LET shards == {p \in DOMAIN storage :
                           p \notin {StartedPath(BuildDir), FinishedPath(BuildDir)}}
             all == << <<BuildDir \o "/artifacts/", shards # {}>>,
                       <<FinishedPath(BuildDir), FinishedPath(BuildDir) \in DOMAIN storage>>,
                       <<StartedPath(BuildDir), StartedPath(BuildDir) \in DOMAIN storage>> >>
             RECURSIVE Pick(_)
             Pick(i) == IF i > Len(all) THEN <<>>
                        ELSE (IF all[i][2] THEN <<all[i][1]>> ELSE <<>>) \o Pick(i + 1)
         IN Pick(1)
    ELSE <<>>

\* the body of gcs_ls: list(gcs.listbucket(path, delimiter='/'))
gcs_ls_func(path, fault) ==
    IF fault # "none" THEN Raises(fault) ELSE Ok(PyList(ListBucket(path)))

----------------------------------------------------------------------------
(* decompress and parse_junit *)

\* data.startswith('\x1f\x8b')
StartsWithGzipMagic(data) == data.gz # "no"

\* zlib.decompress(data, 15 | 16)
ZlibDecompress(data) ==
    IF data.gz = "ok" THEN Ok([data EXCEPT !.gz = "no"]) ELSE Raises("zlib.error")

decompress(data) == IF StartsWithGzipMagic(data) THEN ZlibDecompress(data) ELSE Ok(data)

\* float(s), in thousandths; -1 stands for ValueError
ParseFloat(s) ==
    CASE s = "1.5" -> 1500
      [] s = "0.25" -> 250
      [] s = "12" -> 12000
      [] OTHER -> -1

\* the inner loop of parse_junit over one test case's children
RECURSIVE ScanParamsAnyChild(_, _, _)
ScanParamsAnyChild(params, i, acc) ==
    IF i > Len(params) THEN acc
    ELSE ScanParamsAnyChild(params, i + 1,
            IF params[i].tag \in {"skipped", "failure"}
            THEN [acc EXCEPT !.failed = TRUE, !.text = params[i].text]
            ELSE acc)

RECURSIVE ScanParams(_, _, _)
ScanParams(params, i, acc) ==
    IF i > Len(params) THEN acc
    ELSE LET param == params[i] IN
         ScanParams(params, i + 1,
            IF param.tag = "skipped"
            THEN [acc EXCEPT !.skipped = TRUE, !.text = param.text]
            ELSE IF param.tag = "failure"
            THEN [acc EXCEPT !.failed = TRUE, !.text = param.text]
            ELSE acc)

\* the outer loop of parse_junit: the records yielded, or the exception raised
RECURSIVE ParseCases(_, _, _)
ParseCases(children, i, out) ==
    IF i > Len(children) THEN Ok(out)
    ELSE LET child == children[i] IN
         IF "name" \notin DOMAIN child.attrib \/ "time" \notin DOMAIN child.attrib
         THEN Raises("KeyError")
         ELSE IF ParseFloat(child.attrib["time"]) < 0 THEN Raises("ValueError")
         ELSE LET r == ScanParams(child.params, 1,
                          [failed |-> FALSE, skipped |-> FALSE, text |-> None])
              IN ParseCases(children, i + 1,
                    IF r.failed
                    THEN Append(out, [name |-> child.attrib["name"],
                                      time |-> ParseFloat(child.attrib["time"]),
                                      text |-> r.text])
                    ELSE out)

\* ET.fromstring(xml), then the generator run to its end
parse_junit(xml) ==
    IF xml.gz = "no" /\ xml.fmt = "xml" THEN ParseCases(xml.doc, 1, <<>>)
    ELSE Raises("ParseError")

\* json.loads(s)
json_loads(s) ==
    IF s.kind # "str" THEN Raises("TypeError")
    ELSE IF s.gz = "no" /\ s.fmt = "json" THEN Ok(PyDict(s.doc))
    ELSE Raises("ValueError")

----------------------------------------------------------------------------
(* Frames of wrapped(arg), and the instrumentation of a top-level call *)

NewFrame(op, arg) ==
    [op |-> op, arg |-> arg,
     pc |-> IF op = "build_details" THEN "bd_started" ELSE "func",
     data |-> None, started |-> None, finished |-> None, junit |-> None,
     failures |-> <<>>, n |-> 0, fault |-> "none"]

\* A worker that is serving no request: nothing written, no status set.
IdleResponse ==
    [handler |-> "none", bucket |-> "", phase |-> "idle", status |-> 0,
     body |-> <<>>, template |-> "none", calls |-> 0]

\* No helper under test.
NoProbe == [fn |-> "none", arg |-> None, out |-> None, done |-> FALSE]

IdleCall ==
    [status |-> "idle", op |-> "none", arg |-> "", ncalls |-> 0,
     pre |-> [present |-> FALSE, value |-> None], other |-> FALSE,
     invoked |-> 0, reads |-> <<>>, fault |-> "none", ret |-> None, exc |-> "none",
     raisedIn |-> "none", at |-> "none"]

\* what the cache holds for the call's key as the call starts
NewCall(w, op, arg) ==
    [status |-> "running", op |-> op, arg |-> arg, ncalls |-> call[w].ncalls + 1,
     pre |-> LET k == <<version[w], Prefix(op) \o arg>> IN
             [present |-> EntryLive(cache, now, k),
              value |-> IF EntryLive(cache, now, k) THEN cache[k].value ELSE None],
     other |-> \E v \in Versions \ {version[w]} :
                  EntryLive(cache, now, <<v, Prefix(op) \o arg>>),
     invoked |-> 0, reads |-> <<>>, fault |-> "none", ret |-> None, exc |-> "none",
     raisedIn |-> "none", at |-> "none"]

RECURSIVE SumCalls(_)
SumCalls(ws) ==
    IF ws = {} THEN 0
    ELSE LET w == CHOOSE x \in ws : TRUE IN call[w].ncalls + SumCalls(ws \ {w})

CallsMade == SumCalls(Workers)

Top(w) == stack[w][Len(stack[w])]

Below(w) == SubSeq(stack[w], 1, Len(stack[w]) - 1)

At(w, op, pc) == stack[w] # <<>> /\ Top(w).op = op /\ Top(w).pc = pc

SetTop(w, f) == [stack EXCEPT ![w] = Append(Below(w), f)]

\* the top-level function starts running: count it
Invoking(w, c) == IF Len(stack[w]) = 1 THEN [c EXCEPT !.invoked = @ + 1] ELSE c

\* build_details takes the value its gcs_read call returned
Deliver(st, v) ==
    LET f == st[Len(st)]
        g == CASE f.pc = "bd_started" -> [f EXCEPT !.started = v, !.pc = "bd_finished"]
               [] f.pc = "bd_finished" -> [f EXCEPT !.finished = v, !.pc = "bd_check"]
               [] f.pc = "bd_loop" -> [f EXCEPT !.junit = v, !.pc = "bd_junit"]
    IN Append(SubSeq(st, 1, Len(st) - 1), g)

\* wrapped() returns v to the frames st under it
Finish(w, st, v, c) ==
    /\ stack' = [stack EXCEPT ![w] = IF st = <<>> THEN <<>> ELSE Deliver(st, v)]
    /\ call' = [call EXCEPT ![w] =
                   IF st = <<>> THEN [c EXCEPT !.status = "returned", !.ret = v] ELSE c]

\* an exception nobody catches unwinds the whole request
RaiseOut(w, exc, c) ==
    /\ stack' = [stack EXCEPT ![w] = <<>>]
    /\ call' = [call EXCEPT ![w] = [c EXCEPT !.status = "raised", !.exc = exc,
                                              !.raisedIn = Top(w).op, !.at = Top(w).pc]]

\* wrapped(arg) up to its hit-or-miss decision
EnterWrapped(w, st, op, arg, c) ==
    LET data == WrappedGet(w, op, arg) IN
    IF IsHit(data) THEN Finish(w, st, data, c)
    ELSE /\ stack' = [stack EXCEPT ![w] = Append(st, NewFrame(op, arg))]
         /\ call' = [call EXCEPT ![w] = c]

----------------------------------------------------------------------------
(* Steps of a worker *)

\* a request handler calls a wrapped function
Call(w, op, arg) ==
    /\ stack[w] = <<>>
    /\ CallsMade < MaxCalls
    /\ EnterWrapped(w, <<>>, op, arg, NewCall(w, op, arg))
    /\ UNCHANGED <<storage, cache, now, version, lastAdd, ticks, response, probe>>

\* data = func(arg) for gcs_read
GcsReadFunc(w, F) ==
    /\ At(w, "gcs_read", "func")
    /\ \E fault \in {"none"} \cup F :
          LET r == gcs_read_func(Top(w).arg, fault)
              c == [Invoking(w, call[w]) EXCEPT
                       !.reads = Append(@, Top(w).arg),
                       !.fault = IF fault = "none" THEN @ ELSE fault]
          IN IF r.ok
             THEN /\ stack' = SetTop(w, [Top(w) EXCEPT !.data = r.val, !.pc = "add",
                                                          !.fault = fault])
                  /\ call' = [call EXCEPT ![w] = c]
             ELSE RaiseOut(w, r.exc, c)
    /\ UNCHANGED <<storage, cache, now, version, lastAdd, ticks, response, probe>>

\* data = func(arg) for gcs_ls
GcsLsFunc(w, F) ==
    /\ At(w, "gcs_ls", "func")
    /\ \E fault \in {"none"} \cup F :
          LET r == gcs_ls_func(Top(w).arg, fault)
              c == [Invoking(w, call[w]) EXCEPT
                       !.fault = IF fault = "none" THEN @ ELSE fault]
          IN IF r.ok
             THEN /\ stack' = SetTop(w, [Top(w) EXCEPT !.data = r.val, !.pc = "add"])
                  /\ call' = [call EXCEPT ![w] = c]
             ELSE RaiseOut(w, r.exc, c)
    /\ UNCHANGED <<storage, cache, now, version, lastAdd, ticks, response, probe>>

\* memcache.add(key, data, ...); return data
Add(w) ==
    /\ stack[w] # <<>>
    /\ Top(w).pc = "add"
    /\ cache' = WrappedAdd(w, Top(w).op, Top(w).arg, Top(w).data)
    /\ lastAdd' = [k \in DOMAIN lastAdd \cup {<<Namespace(w), Key(Top(w).op, Top(w).arg)>>} |->
                      IF k = <<Namespace(w), Key(Top(w).op, Top(w).arg)>>
                      THEN Top(w).data ELSE lastAdd[k]]
    /\ Finish(w, Below(w), Top(w).data, call[w])
    /\ UNCHANGED <<storage, now, version, ticks, response, probe>>

\* if not (started and finished): return
MarkersPresentNever(started, finished) == FALSE

MarkersPresentEither(started, finished) == Truthy(started) \/ Truthy(finished)

MarkersPresent(started, finished) == Truthy(started) /\ Truthy(finished)

\* if junit is None: break, and the return after the loop
OnAbsentShardContinue(f) == [f EXCEPT !.n = @ + 1, !.pc = "bd_loop"]

OnAbsentShard(f) ==
    [f EXCEPT !.data = PyTuple(f.started, f.finished, f.failures), !.pc = "add"]

\* started = gcs_read(build_dir + '/started.json')
BdStarted(w) ==
    /\ At(w, "build_details", "bd_started")
    /\ EnterWrapped(w, stack[w], "gcs_read", StartedPath(Top(w).arg),
                    Invoking(w, call[w]))
    /\ UNCHANGED <<storage, cache, now, version, lastAdd, ticks, response, probe>>

\* finished = gcs_read(build_dir + '/finished.json')
BdFinished(w) ==
    /\ At(w, "build_details", "bd_finished")
    /\ EnterWrapped(w, stack[w], "gcs_read", FinishedPath(Top(w).arg), call[w])
    /\ UNCHANGED <<storage, cache, now, version, lastAdd, ticks, response, probe>>

\* if not (started and finished): return; then the two json.loads
BdCheck(w) ==
    /\ At(w, "build_details", "bd_check")
    /\ LET f == Top(w)
           s == json_loads(f.started)
           e == json_loads(f.finished)
       IN IF ~MarkersPresent(f.started, f.finished)
          THEN /\ stack' = SetTop(w, [f EXCEPT !.data = None, !.pc = "add"])
               /\ UNCHANGED call
          ELSE IF ~s.ok THEN RaiseOut(w, s.exc, call[w])
          ELSE IF ~e.ok THEN RaiseOut(w, e.exc, call[w])
          ELSE /\ stack' = SetTop(w, [f EXCEPT !.started = s.val, !.finished = e.val,
                                               !.failures = <<>>, !.n = XRangeStart,
                                               !.pc = "bd_loop"])
               /\ UNCHANGED call
    /\ UNCHANGED <<storage, cache, now, version, lastAdd, ticks, response, probe>>

\* for n in xrange(1, 99): junit = gcs_read(...); after the loop, return
BdLoop(w) ==
    /\ At(w, "build_details", "bd_loop")
    /\ LET f == Top(w) IN
       IF InXRange(f.n)
       THEN EnterWrapped(w, stack[w], "gcs_read", JunitPath(f.arg, f.n), call[w])
       ELSE /\ stack' = SetTop(w, [f EXCEPT
                          !.data = PyTuple(f.started, f.finished, f.failures),
                          !.pc = "add"])
            /\ UNCHANGED call
    /\ UNCHANGED <<storage, cache, now, version, lastAdd, ticks, response, probe>>

\* failures.extend(...)
ExtendFront(failures, records) == records \o failures

Extend(failures, records) == failures \o records

\* if junit is None: break; failures.extend(parse_junit(decompress(junit)))
BdJunit(w) ==
    /\ At(w, "build_details", "bd_junit")
    /\ LET f == Top(w)
           d == decompress(f.junit)
           r == IF d.ok THEN parse_junit(d.val) ELSE d
       IN IF f.junit = None
          THEN /\ stack' = SetTop(w, OnAbsentShard(f))
               /\ UNCHANGED call
          ELSE IF ~r.ok THEN RaiseOut(w, r.exc, call[w])
          ELSE /\ stack' = SetTop(w, [f EXCEPT !.failures = Extend(@, r.val),
                                               !.junit = None,
                                               !.n = @ + 1, !.pc = "bd_loop"])
               /\ UNCHANGED call
    /\ UNCHANGED <<storage, cache, now, version, lastAdd, ticks, response, probe>>

----------------------------------------------------------------------------
(* What the CI uploads into the bucket *)

JsonDoc == Str("no", "json", <<[key |-> "version", val |-> "v1.3.0-alpha.1+abc123"]>>)

Garbage == Str("no", "garbage", <<>>)

Gzip(s) == [s EXCEPT !.gz = "ok"]

CorruptGzip(s) == [s EXCEPT !.gz = "corrupt"]

Param(tag, text) == [tag |-> tag, text |-> text]

TestCase(name, time, params) ==
    [attrib |-> [name |-> name, time |-> time], params |-> params]

\* a junit document of shard i: a failed test, a passed test, a failed test
ShardCases(i) ==
    << TestCase("Test" \o Fmt02d(i), "1.5",
                <<Param("failure", Text("boom" \o Fmt02d(i)))>>),
       TestCase("Passes" \o Fmt02d(i), "0.25", <<>>),
       TestCase("Also" \o Fmt02d(i), "12",
                <<Param("failure", Text("bang" \o Fmt02d(i)))>>) >>

GoodShard(i) == Str("no", "xml", ShardCases(i))

\* a test case element without its name attribute
NamelessShard(i) ==
    Str("no", "xml", <<[attrib |-> [time |-> "1.5"], params |-> <<>>]>>)

\* a test case element whose time attribute is missing
TimelessShard(i) ==
    Str("no", "xml", <<[attrib |-> [name |-> "Test" \o Fmt02d(i)], params |-> <<>>]>>)

\* the records parse_junit yields for GoodShard(i)
ShardFailures(i) ==
    <<[name |-> "Test" \o Fmt02d(i), time |-> 1500, text |-> Text("boom" \o Fmt02d(i))],
      [name |-> "Also" \o Fmt02d(i), time |-> 12000, text |-> Text("bang" \o Fmt02d(i))]>>

Purge(f, t) == [k \in {j \in DOMAIN f : EntryLive(cache, t, j)} |-> f[k]]

RemoveKey(f, k) == [j \in DOMAIN f \ {k} |-> f[j]]


\* time passes; memcache drops what has expired
Tick(d) ==
    /\ ticks < MaxTicks
    /\ ticks' = ticks + 1
    /\ now' = now + d
    /\ cache' = Purge(cache, now + d)
    /\ lastAdd' = Purge(lastAdd, now + d)
    /\ UNCHANGED <<storage, version, stack, call, response, probe>>

\* memcache evicts an item under memory pressure
Evict(k) ==
    /\ k \in DOMAIN cache
    /\ cache' = RemoveKey(cache, k)
    /\ lastAdd' = RemoveKey(lastAdd, k)
    /\ UNCHANGED <<storage, now, version, stack, call, ticks, response, probe>>

\* the CI job writes an object that was not there
Upload(path, content) ==
    /\ path \notin DOMAIN storage
    /\ storage' = [p \in DOMAIN storage \cup {path} |->
                      IF p = path THEN content ELSE storage[p]]
    /\ UNCHANGED <<cache, now, version, stack, call, lastAdd, ticks, response, probe>>

----------------------------------------------------------------------------
(* Spec: two workers, a build that is being uploaded *)

SpecUploads ==
    {<<StartedPath(BuildDir), JsonDoc>>, <<StartedPath(BuildDir), EmptyStr>>}

SpecCalls ==
    {<<"gcs_read", StartedPath(BuildDir)>>, <<"gcs_ls", BuildDir \o "/">>}

SpecFaults == {"TimeoutError"}

SpecTickSteps == {30, 3600}

Init ==
    /\ storage = <<>>
    /\ cache = <<>>
    /\ now = 0
    /\ version \in {[w \in Workers |-> "v1"], [w \in Workers |-> IF w = 1 THEN "v1" ELSE "v2"]}
    /\ stack = [w \in Workers |-> <<>>]
    /\ call = [w \in Workers |-> IdleCall]
    /\ lastAdd = <<>>
    /\ ticks = 0
    /\ response = [w \in Workers |-> IdleResponse]
    /\ probe = NoProbe

Next ==
    \/ \E w \in Workers : \E c \in SpecCalls : Call(w, c[1], c[2])
    \/ \E w \in Workers : GcsReadFunc(w, SpecFaults)
    \/ \E w \in Workers : GcsLsFunc(w, SpecFaults)
    \/ \E w \in Workers : Add(w)
    \/ \E d \in SpecTickSteps : Tick(d)
    \/ \E k \in DOMAIN cache : Evict(k)
    \/ \E u \in SpecUploads : Upload(u[1], u[2])

Spec == Init /\ [][Next]_vars

----------------------------------------------------------------------------
(* Buckets of finished and unfinished builds *)

MarkerKinds == {None, EmptyStr, Garbage, JsonDoc}

GapKinds == {"absent", "empty", "corrupt", "malformed", "nameless", "timeless"}

\* shards are uploaded plain or gzip-compressed
Shard(i) == IF i % 2 = 0 THEN Gzip(GoodShard(i)) ELSE GoodShard(i)

GapShard(kind, i) ==
    CASE kind = "absent" -> None
      [] kind = "empty" -> EmptyStr
      [] kind = "corrupt" -> CorruptGzip(GoodShard(i))
      [] kind = "malformed" -> Garbage
      [] kind = "nameless" -> NamelessShard(i)
      [] kind = "timeless" -> TimelessShard(i)

\* junit_01 .. junit_n well-formed, junit_(n+1) of the given kind, junit_(n+2)
\* well-formed again
ShardRun(n, kind) == [n |-> n, gap |-> kind]

ShardAt(run, i) ==
    IF i = run.n + 1 THEN GapShard(run.gap, i) ELSE Shard(i)

\* None stands for an object that is not in the bucket
Bucket(s, f, run) ==
    LET objs == {<<StartedPath(BuildDir), s>>, <<FinishedPath(BuildDir), f>>}
                \cup {<<JunitPath(BuildDir, i), ShardAt(run, i)>> : i \in 1..(run.n + 2)}
        present == {o \in objs : o[2] # None}
    IN [p \in {o[1] : o \in present} |-> (CHOOSE o \in present : o[1] = p)[2]]

ShortRuns == {ShardRun(n, k) : n \in 0..MaxShards, k \in GapKinds}

\* runs that reach the end of the shard numbering
LongRuns == {ShardRun(n, "absent") : n \in (XRangeStop - 2)..(XRangeStop + 1)}

ShardBuckets ==
    {Bucket(s, f, run) : s \in MarkerKinds, f \in MarkerKinds, run \in ShortRuns}
    \cup {Bucket(JsonDoc, JsonDoc, run) : run \in LongRuns}

----------------------------------------------------------------------------
(* SpecShards: one aggregation of one build, over every kind of bucket *)

InitShards ==
    /\ storage \in ShardBuckets
    /\ cache = <<>>
    /\ now = 0
    /\ version = [w \in Workers |-> "v1"]
    /\ stack = [w \in Workers |-> <<>>]
    /\ call = [w \in Workers |-> IdleCall]
    /\ lastAdd = <<>>
    /\ ticks = 0
    /\ response = [w \in Workers |-> IdleResponse]
    /\ probe = NoProbe

Aggregate == CallsMade = 0 /\ Call(1, "build_details", BuildDir)

NextShards ==
    \/ Aggregate
    \/ GcsReadFunc(1, Faults)
    \/ Add(1)
    \/ BdStarted(1)
    \/ BdFinished(1)
    \/ BdCheck(1)
    \/ BdLoop(1)
    \/ BdJunit(1)

SpecShards == InitShards /\ [][NextShards]_vars

\* the request is made, and every read and every cache operation returns
SpecShardsFair == SpecShards /\ WF_vars(NextShards)

----------------------------------------------------------------------------
(* SpecBuild: one worker serving requests one after the other while the    *)
(* build's objects arrive                                                  *)

BuildBuckets ==
    {Bucket(s, f, ShardRun(1, "absent")) : s \in {None, JsonDoc}, f \in {None, JsonDoc}}

BuildUploads ==
    {<<StartedPath(BuildDir), JsonDoc>>, <<FinishedPath(BuildDir), JsonDoc>>}

BuildCalls ==
    {<<"gcs_read", StartedPath(BuildDir)>>, <<"gcs_ls", BuildDir \o "/">>,
     <<"build_details", BuildDir>>}

BuildTickSteps == {30, 3600, 14400}

\* between two requests
Idle(w) == stack[w] = <<>>

InitBuild ==
    /\ storage \in BuildBuckets
    /\ cache = <<>>
    /\ now = 0
    /\ version = [w \in Workers |-> "v1"]
    /\ stack = [w \in Workers |-> <<>>]
    /\ call = [w \in Workers |-> IdleCall]
    /\ lastAdd = <<>>
    /\ ticks = 0
    /\ response = [w \in Workers |-> IdleResponse]
    /\ probe = NoProbe

NextBuild ==
    \/ \E c \in BuildCalls : Call(1, c[1], c[2])
    \/ GcsReadFunc(1, {})
    \/ GcsLsFunc(1, {})
    \/ Add(1)
    \/ BdStarted(1)
    \/ BdFinished(1)
    \/ BdCheck(1)
    \/ BdLoop(1)
    \/ BdJunit(1)
    \/ \E d \in BuildTickSteps : Idle(1) /\ Tick(d)
    \/ \E k \in DOMAIN cache : Idle(1) /\ Evict(k)
    \/ \E u \in BuildUploads : Idle(1) /\ Upload(u[1], u[2])

SpecBuild == InitBuild /\ [][NextBuild]_vars

----------------------------------------------------------------------------
(* SpecLate: build pages requested again and again while the markers of    *)
(* the build arrive and storage reads may time out                         *)

NextLate ==
    \/ Call(1, "build_details", BuildDir)
    \/ GcsReadFunc(1, SpecFaults)
    \/ Add(1)
    \/ BdStarted(1)
    \/ BdFinished(1)
    \/ BdCheck(1)
    \/ BdLoop(1)
    \/ BdJunit(1)
    \/ \E d \in BuildTickSteps : Idle(1) /\ Tick(d)
    \/ \E u \in BuildUploads : Upload(u[1], u[2])

\* requests keep being served, reads return and time goes on
SpecLate == InitBuild /\ [][NextLate]_vars /\ WF_vars(NextLate)

----------------------------------------------------------------------------
(* Claims *)

Done(w) == call[w].status \in {"returned", "raised"}

NegativeOps == {"gcs_read", "build_details"}

\* C1: a call that starts while a live entry holding the absent value None
\* is cached under its key is served from the cache: it returns without
\* invoking the underlying function and without reading storage.
C1_AbsenceServedFromCache ==
    \A w \in Workers :
        (/\ call[w].status = "returned"
         /\ call[w].op \in NegativeOps
         /\ call[w].pre.present
         /\ call[w].pre.value = None)
        => call[w].invoked = 0 /\ call[w].reads = <<>>

\* C2: a call that starts while a live entry holding a truthy value r is
\* cached under its key and namespace returns r, without invoking the
\* underlying function and without any storage read.
C2_LiveEntryServed ==
    \A w \in Workers :
        (/\ call[w].status # "idle"
         /\ call[w].pre.present
         /\ Truthy(call[w].pre.value))
        => /\ call[w].status = "returned"
           /\ call[w].ret = call[w].pre.value
           /\ call[w].invoked = 0
           /\ call[w].reads = <<>>

\* a second build_details call answered from the cache with the record and
\* its failures
C2_Witness ==
    \E w \in Workers :
        /\ call[w].status = "returned"
        /\ call[w].op = "build_details"
        /\ call[w].ncalls > 1
        /\ call[w].pre.present
        /\ call[w].ret.kind = "tuple"
        /\ call[w].ret.failures = ShardFailures(1)
        /\ call[w].reads = <<>>

\* C3 (as claimed): whatever the cache serves under a key is the value most
\* recently written to that key (last-write-wins).
C3_LastWriteWins ==
    \A k \in DOMAIN cache :
        (EntryLive(cache, now, k) /\ cache[k].value # None)
        => cache[k].value = lastAdd[k]

\* C3 (amended): first-write-wins. No step replaces a live entry: it stays
\* as first written until it expires or is evicted, whatever later writers
\* computed.
C3_FirstWriteWins ==
    [][\A k \in DOMAIN cache :
          (EntryLive(cache, now, k) /\ k \in DOMAIN cache') => cache'[k] = cache[k]]_vars

\* two workers missed on one key and computed different values: the entry
\* served is not the one written last
C3_Witness ==
    \E k \in DOMAIN cache :
        /\ EntryLive(cache, now, k)
        /\ cache[k].value # None
        /\ lastAdd[k] # cache[k].value
        /\ \A w \in Workers :
              /\ call[w].status = "returned"
              /\ call[w].invoked = 1
              /\ k = <<version[w], Prefix(call[w].op) \o call[w].arg>>

\* C4: a call that finds no live entry under its own deployment version
\* misses and invokes the underlying function, whatever is cached for the
\* same prefix and argument under another version.
C4_NamespaceIsolation ==
    \A w \in Workers :
        (call[w].status = "returned" /\ ~call[w].pre.present)
        => call[w].invoked = 1

\* the same key was live under the other version when the call began
C4_Witness ==
    \E w \in Workers :
        /\ call[w].status = "returned"
        /\ ~call[w].pre.present
        /\ call[w].other
        /\ call[w].invoked = 1

Absent(path) == path \notin DOMAIN storage

IsJunitPath(path) == path \notin {StartedPath(BuildDir), FinishedPath(BuildDir)}

\* the shard objects the call has opened, in the order it opened them
JunitReads(w) == SelectSeq(call[w].reads, IsJunitPath)

RECURSIVE FailuresUpTo(_)
FailuresUpTo(m) == IF m = 0 THEN <<>> ELSE FailuresUpTo(m - 1) \o ShardFailures(m)

DetailsKey(w) == <<version[w], Prefix("build_details") \o BuildDir>>

\* C5: with started.json or finished.json absent, build_details reads no
\* junit shard and returns None; and an entry that outlives the negative TTL
\* is stored under the build-details key only when it is a record made from
\* two markers that were there.
C5_MissingMarkerUnavailable ==
    \A w \in Workers :
        call[w].op = "build_details" =>
            /\ (Absent(StartedPath(BuildDir)) \/ Absent(FinishedPath(BuildDir)))
               => /\ JunitReads(w) = <<>>
                  /\ Done(w) => (call[w].status = "returned" /\ call[w].ret = None)
            /\ (/\ DetailsKey(w) \in DOMAIN cache
                /\ cache[DetailsKey(w)].expiry > now + DefaultNegExp)
               => /\ cache[DetailsKey(w)].value.kind = "tuple"
                  /\ ~Absent(StartedPath(BuildDir))
                  /\ ~Absent(FinishedPath(BuildDir))

\* started.json is there, finished.json is not: None, stored for 60 seconds
C5_Witness ==
    \E w \in Workers :
        /\ call[w].op = "build_details"
        /\ call[w].status = "returned"
        /\ ~Absent(StartedPath(BuildDir))
        /\ Absent(FinishedPath(BuildDir))
        /\ call[w].ret = None
        /\ Len(call[w].reads) = 2
        /\ DetailsKey(w) \in DOMAIN cache
        /\ cache[DetailsKey(w)].expiry = now + DefaultNegExp

\* C6: build_details opens junit_01, junit_02, ... in this order, opens
\* nothing after the first shard that is absent, and the failures it returns
\* are those of the shards below the first one that came back None.
C6_StopsAtFirstAbsentShard ==
    \A w \in Workers :
        call[w].op = "build_details" =>
            LET r == JunitReads(w)
                k == Len(r)
            IN /\ \A i \in 1..k : r[i] = JunitPath(BuildDir, i)
               /\ \A i \in 1..(k - 1) : ~Absent(r[i])
               /\ (call[w].status = "returned" /\ call[w].ret # None)
                  => call[w].ret.failures =
                        FailuresUpTo(IF Absent(r[k]) \/ call[w].fault # "none"
                                     THEN k - 1 ELSE k)

\* shards 1, 2 and 4 are there and 3 is not
C6_Witness ==
    \E w \in Workers :
        /\ call[w].op = "build_details"
        /\ call[w].status = "returned"
        /\ ~Absent(JunitPath(BuildDir, 1))
        /\ ~Absent(JunitPath(BuildDir, 2))
        /\ Absent(JunitPath(BuildDir, 3))
        /\ ~Absent(JunitPath(BuildDir, 4))
        /\ JunitReads(w) = <<JunitPath(BuildDir, 1), JunitPath(BuildDir, 2),
                             JunitPath(BuildDir, 3)>>
        /\ call[w].ret # None
        /\ call[w].ret.failures = ShardFailures(1) \o ShardFailures(2)

\* C7: with junit_01 .. junit_99 all present and every read succeeding,
\* build_details opens all 99 shards and returns the failures of all 99.
C7_ReadsAllShards ==
    \A w \in Workers :
        (/\ call[w].op = "build_details"
         /\ call[w].status = "returned"
         /\ call[w].ret # None
         /\ call[w].fault = "none"
         /\ \A i \in 1..XRangeStop : ~Absent(JunitPath(BuildDir, i)))
        => /\ Len(JunitReads(w)) = XRangeStop
           /\ call[w].ret.failures = FailuresUpTo(XRangeStop)

\* C8: build_details does not raise out of its shard loop: a shard that
\* cannot be decompressed or parsed ends the enumeration like an absent one.
C8_BadShardDoesNotRaise ==
    \A w \in Workers :
        (call[w].op = "build_details" /\ call[w].status = "raised")
        => call[w].at # "bd_junit"

\* C9: build_details does not raise when started.json or finished.json is
\* present but is not a JSON document.
C9_BadMarkerDoesNotRaise ==
    \A w \in Workers :
        (call[w].op = "build_details" /\ call[w].status = "raised")
        => call[w].at # "bd_check"

\* C10: no exception leaves gcs_read, and a read that found no object or
\* failed in the backing store hands None to the wrapper.
C10_GcsReadNeverRaises ==
    \A w \in Workers :
        /\ call[w].status = "raised" => call[w].raisedIn # "gcs_read"
        /\ At(w, "gcs_read", "add")
           => ((Top(w).fault # "none" \/ Absent(Top(w).arg)) => Top(w).data = None)

\* a read of an object that is there timed out and came back as None
C10_Witness ==
    \E w \in Workers :
        /\ At(w, "gcs_read", "add")
        /\ Top(w).fault = "TimeoutError"
        /\ ~Absent(Top(w).arg)
        /\ Top(w).data = None

\* C11: on a cache miss the wrapper invokes the function exactly once,
\* passes its result to memcache.add with expiry exp when the result is
\* truthy and neg_exp when it is falsy, and returns that result whether or
\* not the add took effect (an entry already live under the key is kept).
C11_MissInvokesStoresReturns ==
    [][\A w \in Workers :
          (Len(stack[w]) = 1 /\ Top(w).pc = "add" /\ stack'[w] = <<>>)
          => LET f == Top(w)
                 k == <<version[w], Prefix(f.op) \o f.arg>>
                 ttl == IF Truthy(f.data) THEN Exp(f.op) ELSE NegExp(f.op)
             IN /\ call'[w].invoked = 1
                /\ call'[w].status = "returned"
                /\ call'[w].ret = f.data
                /\ lastAdd'[k] = f.data
                /\ IF EntryLive(cache, now, k)
                   THEN cache'[k] = cache[k]
                   ELSE cache'[k] = [value |-> f.data, expiry |-> now + ttl]]_vars

\* a call that missed, invoked its function once and returned its result
\* although the entry live under its key holds another worker's value
C11_Witness ==
    \E w \in Workers :
        /\ call[w].status = "returned"
        /\ call[w].invoked = 1
        /\ LET k == <<version[w], Prefix(call[w].op) \o call[w].arg>>
           IN /\ EntryLive(cache, now, k)
              /\ cache[k].value # call[w].ret
              /\ lastAdd[k] = call[w].ret

\* the arguments the wrapped operations are called with for one build
BuildArgs ==
    {BuildDir, BuildDir \o "/", StartedPath(BuildDir), FinishedPath(BuildDir),
     JobDir("kubernetes-jenkins", "logs/", "kubernetes-e2e-gce"),
     JobsDir("kubernetes-jenkins", "logs")}
        \cup {JunitPath(BuildDir, i) : i \in 1..(MaxShards + 2)}

\* C12: for gcs_read, gcs_ls and build_details the negative TTL is at most
\* the positive TTL (60 vs 3600, 60 vs 60, 60 vs 14400 seconds), so an entry
\* stored for a falsy result expires within neg_exp of its write, no later
\* than an entry stored at the same moment for a truthy result.
C12_NegativeTtlNotLonger ==
    /\ <<NegExp("gcs_read"), Exp("gcs_read")>> = <<60, 3600>>
    /\ <<NegExp("gcs_ls"), Exp("gcs_ls")>> = <<60, 60>>
    /\ <<NegExp("build_details"), Exp("build_details")>> = <<60, 14400>>
    /\ \A k \in DOMAIN cache : \E op \in Ops :
          /\ \E arg \in BuildArgs : k[2] = Prefix(op) \o arg
          /\ cache[k].expiry <= now + Exp(op)
          /\ ~Truthy(cache[k].value) => cache[k].expiry <= now + 60

\* a falsy and a truthy gcs_read result cached at the same moment, the
\* falsy one expiring first
C12_Witness ==
    \E a, b \in BuildArgs :
        LET ka == <<"v1", Prefix("gcs_read") \o a>>
            kb == <<"v1", Prefix("gcs_read") \o b>>
        IN /\ ka \in DOMAIN cache /\ kb \in DOMAIN cache
           /\ ~Truthy(cache[ka].value) /\ Truthy(cache[kb].value)
           /\ cache[ka].expiry - 60 = cache[kb].expiry - 3600
           /\ cache[ka].expiry < cache[kb].expiry

HasFailure(case) == \E i \in 1..Len(case.params) : case.params[i].tag = "failure"

\* the names of the failed test cases of the shards 1..m in the bucket, shard
\* by shard and in document order within each shard
RECURSIVE FailedNamesUpTo(_)
FailedNamesUpTo(m) ==
    IF m = 0 THEN <<>>
    ELSE LET failed == SelectSeq(storage[JunitPath(BuildDir, m)].doc, HasFailure)
         IN FailedNamesUpTo(m - 1) \o [i \in 1..Len(failed) |-> failed[i].attrib.name]

\* C13: the failures list build_details returns is the concatenation, in
\* increasing shard index, of the failure records of each collected shard in
\* document order: nothing is reordered, duplicated or dropped.
C13_FailuresInShardAndDocumentOrder ==
    \A w \in Workers :
        (/\ call[w].op = "build_details"
         /\ call[w].status = "returned"
         /\ call[w].ret # None)
        => LET F == call[w].ret.failures
               r == JunitReads(w)
               m == IF Absent(r[Len(r)]) \/ call[w].fault # "none"
                    THEN Len(r) - 1 ELSE Len(r)
           IN /\ [i \in 1..Len(F) |-> F[i].name] = FailedNamesUpTo(m)
              /\ Cardinality({F[i].name : i \in 1..Len(F)}) = Len(F)

\* three shards collected, two failed tests in each
C13_Witness ==
    \E w \in Workers :
        /\ call[w].op = "build_details"
        /\ call[w].status = "returned"
        /\ call[w].ret # None
        /\ [i \in 1..Len(call[w].ret.failures) |-> call[w].ret.failures[i].name]
              = <<"Test01", "Also01", "Test02", "Also02", "Test03", "Also03">>

----------------------------------------------------------------------------
(* Byte strings as sequences of characters, and pad_numbers *)

\* the characters of the object names, in ascending byte order
Alphabet ==
    <<"-", ".", "/", "0", "1", "2", "3", "4", "5", "6", "7", "8", "9", "_",
      "a", "b", "c", "d", "e", "f", "g", "h", "i", "j", "k", "l", "m", "n",
      "o", "p", "q", "r", "s", "t", "u", "v", "w", "x", "y", "z">>

\* \d
IsDigit(c) == \E d \in 0..9 : Digit(d) = c

\* Python 2 str comparison: bytewise, a proper prefix sorts first
StrLess(a, b) ==
    LET Ord(c) == CHOOSE i \in 1..Len(Alphabet) : Alphabet[i] = c
        n == IF Len(a) < Len(b) THEN Len(a) ELSE Len(b)
        diff == {i \in 1..n : a[i] # b[i]}
    IN IF diff = {} THEN Len(a) < Len(b)
       ELSE LET i == CHOOSE j \in diff : \A k \in diff : j <= k
            IN Ord(a[i]) < Ord(b[i])

\* m.group(0).rjust(16, '0')
PadWidth == 16

RJustNoPad(run, width) == run

RJust(run, width) ==
    IF Len(run) >= width THEN run
    ELSE [i \in 1..(width - Len(run)) |-> "0"] \o run

\* re.sub(r'\d+', lambda m: m.group(0).rjust(16, '0'), s): every maximal
\* digit run is replaced, everything else is copied
pad_numbers(s) ==
    LET RECURSIVE RunEnd(_)
        RunEnd(i) == IF i < Len(s) /\ IsDigit(s[i + 1]) THEN RunEnd(i + 1) ELSE i
        RECURSIVE PadFrom(_)
        PadFrom(i) ==
            IF i > Len(s) THEN <<>>
            ELSE IF IsDigit(s[i])
                 THEN RJust(SubSeq(s, i, RunEnd(i)), PadWidth) \o PadFrom(RunEnd(i) + 1)
                 ELSE <<s[i]>> \o PadFrom(i + 1)
    IN PadFrom(1)

----------------------------------------------------------------------------
(* The pure helpers, each applied once to an input drawn from a bounded set *)

Rep(c, n) == [i \in 1..n |-> c]

\* pairs of names prefix+a+suffix, prefix+b+suffix: the digit runs a and b
\* are every short run and some of 15, 16 and 17 digits
PadProbes ==
    LET DigitRuns ==
            UNION {[1..n -> {"0", "1", "2", "9"}] : n \in 1..MaxDigits}
                \cup {Rep("9", n) : n \in (PadWidth - 1)..(PadWidth + 1)}
                \cup {<<"1">> \o Rep("0", n) : n \in (PadWidth - 1)..PadWidth}
        NamePrefixes == {<<"b", "u", "i", "l", "d">>, <<"e", "2", "e", "/">>}
        NameSuffixes == {<<>>, <<".", "x", "m", "l">>}
    IN {[fn |-> "pad_numbers", arg |-> [prefix |-> p, a |-> a, b |-> b, suffix |-> x],
         out |-> None, done |-> FALSE] :
           p \in NamePrefixes, a \in DigitRuns, b \in DigitRuns, x \in NameSuffixes}

PureUnchanged ==
    UNCHANGED <<storage, cache, now, version, stack, call, lastAdd, ticks, response>>

ApplyPadNumbers ==
    /\ probe.fn = "pad_numbers" /\ ~probe.done
    /\ probe' = [probe EXCEPT
                    !.out = <<pad_numbers(probe.arg.prefix \o probe.arg.a \o probe.arg.suffix),
                              pad_numbers(probe.arg.prefix \o probe.arg.b \o probe.arg.suffix)>>,
                    !.done = TRUE]
    /\ PureUnchanged

\* '\x1f\x8b'
GzipMagic == <<31, 139>>

\* the check value of a gzip member's trailer (a byte-sized stand-in for CRC-32)
RECURSIVE Crc(_)
Crc(x) == IF x = <<>> THEN 0 ELSE (Crc(Tail(x)) * 3 + Head(x) + 1) % 251

\* a gzip member holding x: magic, method 8 (deflate), no flags, one final
\* stored block (its length and the complement of its length, then the
\* bytes of x as they are), and the trailer: check value and length of x
GzipEncode(x) ==
    GzipMagic \o <<8, 0>> \o <<1, Len(x), 255 - Len(x)>> \o x \o <<Crc(x), Len(x)>>

\* data.startswith('\x1f\x8b')
StartsWithFirstMagicByte(data) == Len(data) >= 1 /\ data[1] = GzipMagic[1]

StartsWithMagicBytes(data) == Len(data) >= 2 /\ SubSeq(data, 1, 2) = GzipMagic

\* zlib.decompress(data, 15 | 16): the content of a well-formed gzip member,
\* zlib.error for anything else
Gunzip(data) ==
    IF /\ Len(data) >= 9
       /\ SubSeq(data, 1, 5) = GzipMagic \o <<8, 0, 1>>
       /\ data[7] = 255 - data[6]
       /\ Len(data) = 9 + data[6]
       /\ data[Len(data) - 1] = Crc(SubSeq(data, 8, 7 + data[6]))
       /\ data[Len(data)] = data[6]
    THEN Ok(SubSeq(data, 8, 7 + data[6]))
    ELSE Raises("zlib.error")

\* decompress on the bytes themselves
decompress_bytes(data) ==
    IF StartsWithMagicBytes(data) THEN Gunzip(data) ELSE Ok(data)

\* byte strings x of up to MaxBytes bytes, given to decompress as they are,
\* gzip-encoded, or gzip-encoded with the last byte cut off
DecompressProbes ==
    {[fn |-> "decompress", arg |-> [x |-> x, form |-> f], out |-> None, done |-> FALSE] :
        x \in UNION {[1..n -> {0, 31, 65, 139}] : n \in 0..MaxBytes},
        f \in {"plain", "gzip", "cut"}}

DecompressInput(arg) ==
    CASE arg.form = "plain" -> arg.x
      [] arg.form = "gzip" -> GzipEncode(arg.x)
      [] arg.form = "cut" -> SubSeq(GzipEncode(arg.x), 1, Len(GzipEncode(arg.x)) - 1)

ApplyDecompress ==
    /\ probe.fn = "decompress" /\ ~probe.done
    /\ probe' = [probe EXCEPT !.out = decompress_bytes(DecompressInput(probe.arg)),
                              !.done = TRUE]
    /\ PureUnchanged

\* junit documents of two test cases: the first with every list of up to
\* MaxParams children, the second with no child, a failure or a skip
JunitProbes ==
    LET Children == {Param(tag, text) : tag \in {"failure", "skipped", "system-out"},
                                        text \in {Text("a"), Text("b")}}
        First == UNION {[1..n -> Children] : n \in 0..MaxParams}
        Second == {<<>>, <<Param("failure", None)>>, <<Param("skipped", Text("a"))>>}
    IN {[fn |-> "parse_junit",
         arg |-> Str("no", "xml", <<TestCase("Test01", "1.5", p),
                                    TestCase("Test02", "0.25", q)>>),
         out |-> None, done |-> FALSE] : p \in First, q \in Second}

ApplyParseJunit ==
    /\ probe.fn = "parse_junit" /\ ~probe.done
    /\ probe' = [probe EXCEPT !.out = parse_junit(probe.arg), !.done = TRUE]
    /\ PureUnchanged

\* filters.py.  A text is a sequence of lines (the pieces between '\n'), a
\* line a sequence of tokens: "/", ":", a blank, one of the five characters
\* jinja2.escape rewrites, or a maximal run of other characters.

RECURSIVE Join(_)
Join(tokens) == IF tokens = <<>> THEN "" ELSE Head(tokens) \o Join(Tail(tokens))

\* jinja2.escape(inp), token by token
EscapeNothing(tok) == tok

EscapeToken(tok) ==
    CASE tok = "&" -> "&amp;"
      [] tok = "<" -> "&lt;"
      [] tok = ">" -> "&gt;"
      [] tok = "'" -> "&#39;"
      [] tok = "\"" -> "&#34;"
      [] OTHER -> tok

jinja2_escape(line) == [i \in 1..Len(line) |-> EscapeToken(line[i])]

\* GITHUB_VIEW_TEMPLATE % (commit, path, line)
GITHUB_VIEW_TEMPLATE(commit, path, line) ==
    "https://github.com/kubernetes/kubernetes/blob/" \o commit \o "/" \o path
        \o "#L" \o line

\* re.sub(r'^/\S*/kubernetes/(\S+):(\d+)$', rep, inp, flags=re.MULTILINE) on
\* one line: the line starts with "/", holds no blank before its last ":",
\* after which come digits only; \S* is greedy, so group 1 starts after the
\* last "/kubernetes/" that leaves it something to match
LinkifyLine(line, commit) ==
    LET n == Len(line)
        IsSpace(tok) == tok \in {" ", "\t"}
        IsDigits(tok) == \E k \in 0..999 : IntToStr(k) = tok
        colons == {c \in 1..(n - 1) :
                      /\ line[c] = ":"
                      /\ \A k \in (c + 1)..n : IsDigits(line[k])
                      /\ \A k \in 1..(c - 1) : ~IsSpace(line[k])}
        starts(c) == {i \in 2..(c - 4) :
                         SubSeq(line, i, i + 2) = <<"/", "kubernetes", "/">>}
    IN IF n >= 1 /\ line[1] = "/" /\ \E c \in colons : starts(c) # {}
       THEN LET c == CHOOSE k \in colons : starts(k) # {}
                i == CHOOSE j \in starts(c) : \A k \in starts(c) : k <= j
            IN "<a href=\""
                 \o GITHUB_VIEW_TEMPLATE(commit, Join(SubSeq(line, i + 3, c - 1)),
                                         Join(SubSeq(line, c + 1, n)))
                 \o "\">" \o Join(line) \o "</a>"
       ELSE Join(line)

\* do_linkify_stacktrace(inp, commit): the lines of the Markup it returns
do_linkify_stacktrace(inp, commit) ==
    LET escaped == [i \in 1..Len(inp) |-> jinja2_escape(inp[i])]
    IN IF commit = ""
       THEN [i \in 1..Len(inp) |-> Join(escaped[i])]
       ELSE [i \in 1..Len(inp) |-> LinkifyLine(escaped[i], commit)]

\* the tokens of the line made of the given parts
PartsLine(p) == p.lead \o p.dir \o p.marker \o p.file \o p.sep \o p.num \o p.trail

\* texts of one or two lines, with and without a commit: a first line put
\* together from parts, some of which keep it from being a stack frame line
LinkifyProbes ==
    LET Parts == [lead : {<<>>, <<" ">>},
                  dir : {<<"/", "go", "/", "src", "/", "k8s.io">>, <<"go", "/", "src">>},
                  marker : {<<"/", "kubernetes", "/">>, <<"/", "kube", "/">>},
                  file : {<<"test", "/", "example.go">>, <<"a", "<", "b", ">", "&", ".go">>,
                          <<"x", " ", "y.go">>,
                          <<"_output", "/", "kubernetes", "/", "test", "/", "e2e.go">>},
                  sep : {<<":">>, <<>>},
                  num : {<<"123">>, <<"12a">>, <<>>},
                  trail : {<<>>, <<" ", "+0x1f">>}]
        More == {<<>>, << <<"<", "a", ">">> >>,
                 << <<"/", "go", "/", "kubernetes", "/", "b.go", ":", "7">>, <<"'", "\"">> >>}
    IN {[fn |-> "do_linkify_stacktrace",
         arg |-> [parts |-> p, inp |-> <<PartsLine(p)>> \o m, commit |-> c],
         out |-> None, done |-> FALSE] : p \in Parts, m \in More, c \in {"", "VERSION"}}

ApplyLinkify ==
    /\ probe.fn = "do_linkify_stacktrace" /\ ~probe.done
    /\ probe' = [probe EXCEPT
                    !.out = do_linkify_stacktrace(probe.arg.inp, probe.arg.commit),
                    !.done = TRUE]
    /\ PureUnchanged

\* divmod(a, b) for a >= 0
DivModSwapped(a, b) == <<a % b, a \div b>>

DivMod(a, b) == <<a \div b, a % b>>

\* do_duration(seconds), the duration given in thousandths of a second
do_duration(ms) ==
    LET hours == DivMod(ms, 3600 * 1000)[1]
        minutes == DivMod(DivMod(ms, 3600 * 1000)[2], 60 * 1000)[1]
        seconds == DivMod(DivMod(ms, 3600 * 1000)[2], 60 * 1000)[2]
        \* '%.2f': the nearest hundredth
        cs == (seconds + 5) \div 10
    IN IF hours # 0 THEN IntToStr(hours) \o "h" \o IntToStr(minutes) \o "m"
       ELSE IF minutes # 0
       THEN IntToStr(minutes) \o "m" \o IntToStr(seconds \div 1000) \o "s"
       ELSE IF seconds < 10 * 1000
       THEN IntToStr(cs \div 100) \o "." \o Fmt02d(cs % 100) \o "s"
       ELSE IntToStr(seconds \div 1000) \o "s"

\* durations around every threshold, whole and fractional
DurationProbes ==
    {[fn |-> "do_duration", arg |-> [ms |-> s * 1000 + f], out |-> None, done |-> FALSE] :
        s \in {0, 3, 9, 10, 13, 59, 60, 61, 78, 119, 3599, 3600, 3601, 3659, 3660,
               3723, 7199, 7200, 86399, 90000},
        f \in {0, 1, 200, 560, 600, 999}}

ApplyDuration ==
    /\ probe.fn = "do_duration" /\ ~probe.done
    /\ probe' = [probe EXCEPT !.out = do_duration(probe.arg.ms), !.done = TRUE]
    /\ PureUnchanged

\* re.sub(pattern, repl, s) for a pattern [class]+: every maximal run of
\* characters of the class is replaced by repl
RECURSIVE ReSubEach(_, _, _)
ReSubEach(class, repl, s) ==
    IF s = <<>> THEN <<>>
    ELSE (IF Head(s) \in class THEN repl ELSE <<Head(s)>>) \o ReSubEach(class, repl, Tail(s))

RECURSIVE ReSub(_, _, _)
ReSub(class, repl, s) ==
    IF s = <<>> THEN <<>>
    ELSE IF Head(s) \notin class THEN <<Head(s)>> \o ReSub(class, repl, Tail(s))
    ELSE LET RECURSIVE RunLen(_)
             RunLen(t) == IF t # <<>> /\ Head(t) \in class THEN 1 + RunLen(Tail(t)) ELSE 0
         IN repl \o ReSub(class, repl, SubSeq(s, RunLen(s) + 1, Len(s)))

\* do_slugify(inp): \w and \s are those of a pattern compiled without
\* re.UNICODE, lower is str.lower()
do_slugify(inp) ==
    LET up == <<"A", "B", "C", "D", "E", "F", "G", "H", "I", "J", "K", "L", "M", "N",
                "O", "P", "Q", "R", "S", "T", "U", "V", "W", "X", "Y", "Z">>
        low == <<"a", "b", "c", "d", "e", "f", "g", "h", "i", "j", "k", "l", "m", "n",
                 "o", "p", "q", "r", "s", "t", "u", "v", "w", "x", "y", "z">>
        IsWord(c) == \/ \E k \in 1..26 : c \in {up[k], low[k]}
                     \/ IsDigit(c)
                     \/ c = "_"
        IsBlank(c) == c \in {" ", "\t", "\n", "\r"}
        lower(t) == [i \in 1..Len(t) |->
                        IF \E k \in 1..26 : up[k] = t[i]
                        THEN low[CHOOSE k \in 1..26 : up[k] = t[i]] ELSE t[i]]
        chars == {inp[i] : i \in 1..Len(inp)}
        stripped == ReSub({c \in chars : ~IsWord(c) /\ ~IsBlank(c) /\ c # "-"}, <<>>, inp)
    IN lower(ReSub({c \in chars : IsBlank(c)}, <<"-">>, stripped))

\* every short string over a few characters of each kind, and the string of
\* filters_test.py
SlugProbes ==
    LET SlugChars == {"k", "T", "8", "_", "-", " ", "\t", "["}
        Inputs == UNION {[1..n -> SlugChars] : n \in 0..MaxSlug}
                    \cup {<<"[", "k", "8", "s", "]", " ", "T", "e", "s", "t", " ", "F", "o", "o">>,
                          <<"a", " ", "[", "!", "]", " ", "\n", "B", ".", "c">>}
    IN {[fn |-> "do_slugify", arg |-> [inp |-> x], out |-> None, done |-> FALSE] : x \in Inputs}

ApplySlugify ==
    /\ probe.fn = "do_slugify" /\ ~probe.done
    /\ probe' = [probe EXCEPT !.out = do_slugify(probe.arg.inp), !.done = TRUE]
    /\ PureUnchanged

\* two of the three operations, each with an argument that may itself look
\* like a prefix, the rest of a prefix or a whole key
KeyProbes ==
    LET Pieces == {"", "-ls", "s-ls", "gs", "gs-ls", "build-details", "/b/o"}
        Args == {p \o q : p \in Pieces, q \in {"", "://", "://x"}}
    IN {[fn |-> "key", arg |-> [ops |-> ops, a |-> a, b |-> b], out |-> None, done |-> FALSE] :
           ops \in {o \in Ops \X Ops : o[1] # o[2]}, a \in Args, b \in Args}

\* key = prefix + arg, for each of the two
ApplyKey ==
    /\ probe.fn = "key" /\ ~probe.done
    /\ probe' = [probe EXCEPT !.out = <<Key(probe.arg.ops[1], probe.arg.a),
                                         Key(probe.arg.ops[2], probe.arg.b)>>,
                              !.done = TRUE]
    /\ PureUnchanged

\* parse_kubelet_log.py.  A line of build-log.txt is what the two regular
\* expressions make of it: kind "start" when regex_test_start matches,
\* "end" when only regex_test_end does, with the groups test, node and
\* int(timestamp); kind "other" when neither matches.

\* TestTimeRange(test, node, start_ts, end_ts)
TestTimeRange(test, node, start_ts, end_ts) ==
    [test |-> test, node |-> node, start_ts |-> start_ts, end_ts |-> end_ts]

\* time_range != None and time_range.test == test and time_range.node == node
\* and time_range.end_ts == 0
ClosesTestOnly(time_range, line) ==
    time_range # None /\ time_range.test = line.test /\ time_range.end_ts = 0

Closes(time_range, line) ==
    /\ time_range # None
    /\ time_range.test = line.test
    /\ time_range.node = line.node
    /\ time_range.end_ts = 0

\* load_test_ts_range(test_result_dir, build) on the lines of the file:
\* the list it returns, or sys.exit(1)
load_test_ts_range(lines) ==
    LET RECURSIVE Scan(_, _, _)
        Scan(i, time_range, test_time_range_list) ==
            IF i > Len(lines) THEN [exit |-> 0, ranges |-> test_time_range_list]
            ELSE IF lines[i].kind = "start"
            THEN IF time_range = None
                 THEN Scan(i + 1,
                           TestTimeRange(lines[i].test, lines[i].node, lines[i].ts, 0),
                           test_time_range_list)
                 ELSE [exit |-> 1, ranges |-> <<>>]
            ELSE IF lines[i].kind = "end"
            THEN IF Closes(time_range, lines[i])
                 THEN Scan(i + 1, None,
                           Append(test_time_range_list,
                                  [time_range EXCEPT !.end_ts = lines[i].ts]))
                 ELSE [exit |-> 1, ranges |-> <<>>]
            ELSE Scan(i + 1, time_range, test_time_range_list)
    IN Scan(1, None, <<>>)

\* every log of up to MaxLines lines about two tests on two nodes, the
\* line at position i carrying the timestamp 10 * i
LogProbes ==
    LET Lines == [kind : {"start", "end"}, test : {"density", "resource"},
                  node : {"n1", "n2"}]
                   \cup {[kind |-> "other", test |-> "", node |-> ""]}
        Stamp(log) == [i \in 1..Len(log) |->
                          [kind |-> log[i].kind, test |-> log[i].test,
                           node |-> log[i].node, ts |-> 10 * i]]
    IN {[fn |-> "load_test_ts_range", arg |-> [lines |-> Stamp(log)],
         out |-> None, done |-> FALSE] : log \in UNION {[1..n -> Lines] : n \in 0..MaxLines}}

ApplyLoadTestTsRange ==
    /\ probe.fn = "load_test_ts_range" /\ ~probe.done
    /\ probe' = [probe EXCEPT !.out = load_test_ts_range(probe.arg.lines), !.done = TRUE]
    /\ PureUnchanged

InitPure ==
    /\ storage = <<>>
    /\ cache = <<>>
    /\ now = 0
    /\ version = [w \in Workers |-> "v1"]
    /\ stack = [w \in Workers |-> <<>>]
    /\ call = [w \in Workers |-> IdleCall]
    /\ lastAdd = <<>>
    /\ ticks = 0
    /\ response = [w \in Workers |-> IdleResponse]
    /\ probe \in PadProbes \cup JunitProbes \cup DecompressProbes \cup LinkifyProbes
                \cup DurationProbes \cup SlugProbes \cup KeyProbes \cup LogProbes

NextPure ==
    \/ ApplyPadNumbers
    \/ ApplyParseJunit
    \/ ApplyDecompress
    \/ ApplyLinkify
    \/ ApplyDuration
    \/ ApplySlugify
    \/ ApplyKey
    \/ ApplyLoadTestTsRange

SpecPure == InitPure /\ [][NextPure]_vars

NoLeadingZero(run) == Len(run) = 1 \/ run[1] # "0"

DigitValue(c) == CHOOSE d \in 0..9 : Digit(d) = c

\* the number a run of at most 8 digits denotes
RECURSIVE DigitsValue(_)
DigitsValue(run) ==
    IF run = <<>> THEN 0
    ELSE 10 * DigitsValue(SubSeq(run, 1, Len(run) - 1)) + DigitValue(run[Len(run)])

\* the number a run of at most 16 digits denotes, as <<high, low>> in base 10^8
NumValue(run) ==
    LET k == IF Len(run) > 8 THEN Len(run) - 8 ELSE 0
    IN <<DigitsValue(SubSeq(run, 1, k)), DigitsValue(SubSeq(run, k + 1, Len(run)))>>

NumLess(a, b) ==
    \/ NumValue(a)[1] < NumValue(b)[1]
    \/ NumValue(a)[1] = NumValue(b)[1] /\ NumValue(a)[2] < NumValue(b)[2]

\* C18: for two strings that differ only in one digit run, both runs being
\* numbers without leading zeros of at most 16 digits, comparing the
\* pad_numbers outputs as strings agrees with comparing the two numbers.
C18_PaddedOrderIsNumericOrder ==
    (/\ probe.fn = "pad_numbers" /\ probe.done
     /\ Len(probe.arg.a) <= 16 /\ Len(probe.arg.b) <= 16
     /\ NoLeadingZero(probe.arg.a) /\ NoLeadingZero(probe.arg.b))
    => /\ StrLess(probe.out[1], probe.out[2]) <=> NumLess(probe.arg.a, probe.arg.b)
       /\ StrLess(probe.out[2], probe.out[1]) <=> NumLess(probe.arg.b, probe.arg.a)
       /\ probe.out[1] = probe.out[2] <=> probe.arg.a = probe.arg.b

\* pad_numbers('build9') < pad_numbers('build10')
C18_Witness ==
    /\ probe.fn = "pad_numbers" /\ probe.done
    /\ probe.arg.prefix = <<"b", "u", "i", "l", "d">>
    /\ probe.arg.a = <<"9">> /\ probe.arg.b = <<"1", "0">> /\ probe.arg.suffix = <<>>
    /\ probe.out[1] = probe.arg.prefix \o Rep("0", 15) \o <<"9">>
    /\ probe.out[2] = probe.arg.prefix \o Rep("0", 14) \o <<"1", "0">>
    /\ StrLess(probe.out[1], probe.out[2])

\* C16: parse_junit yields exactly one record (name, time as a number, text)
\* for each test case element with at least one 'failure' child, in document
\* order, and none for a test case without one: 'skipped' children and
\* children with other tags do not make a record and do not raise.
C16_OneRecordPerFailedCase ==
    (probe.fn = "parse_junit" /\ probe.done)
    => /\ probe.out.ok
       /\ LET failed == SelectSeq(probe.arg.doc, HasFailure)
              recs == probe.out.val
          IN /\ Len(recs) = Len(failed)
             /\ \A i \in 1..Len(recs) :
                   /\ DOMAIN recs[i] = {"name", "time", "text"}
                   /\ recs[i].name = failed[i].attrib.name
                   /\ recs[i].time \in Nat

\* a skipped-only test case and a failed one: one record, for the second
C16_Witness ==
    /\ probe.fn = "parse_junit" /\ probe.done
    /\ probe.arg.doc[1].params = <<Param("skipped", Text("a")), Param("system-out", Text("b"))>>
    /\ probe.arg.doc[2].params = <<Param("failure", None)>>
    /\ probe.out.val = <<[name |-> "Test02", time |-> 250, text |-> None]>>

\* C17: for every test case with a 'failure' child the text of the emitted
\* record is the text of one of its 'failure' children, whatever the order
\* in which its 'failure' and 'skipped' children occur.
C17_TextIsFailureText ==
    (probe.fn = "parse_junit" /\ probe.done /\ probe.out.ok)
    => \A i \in 1..Len(probe.out.val) :
          \E j \in 1..Len(probe.arg.doc) :
              /\ probe.arg.doc[j].attrib.name = probe.out.val[i].name
              /\ \E k \in 1..Len(probe.arg.doc[j].params) :
                    /\ probe.arg.doc[j].params[k].tag = "failure"
                    /\ probe.arg.doc[j].params[k].text = probe.out.val[i].text

\* C19: decompress returns its input unchanged whenever the input does not
\* begin with the gzip magic bytes 0x1f 0x8b, and returns X when given the
\* gzip encoding of X.
C19_DecompressPassThroughAndRoundTrip ==
    (probe.fn = "decompress" /\ probe.done)
    => LET input == DecompressInput(probe.arg)
       IN /\ ~(Len(input) >= 2 /\ input[1] = 31 /\ input[2] = 139)
             => probe.out = Ok(input)
          /\ probe.arg.form = "gzip" => probe.out = Ok(probe.arg.x)

\* the gzip encoding of a string that itself begins with the magic bytes
C19_Witness ==
    /\ probe.fn = "decompress" /\ probe.done
    /\ probe.arg = [x |-> <<31, 139, 65>>, form |-> "gzip"]
    /\ Len(DecompressInput(probe.arg)) = 12
    /\ probe.out = Ok(<<31, 139, 65>>)

\* the text a browser shows for a line: & < > ' " as entities
RECURSIVE HtmlText(_)
HtmlText(tokens) ==
    IF tokens = <<>> THEN ""
    ELSE (CASE Head(tokens) = "&" -> "&amp;"
            [] Head(tokens) = "<" -> "&lt;"
            [] Head(tokens) = ">" -> "&gt;"
            [] Head(tokens) = "'" -> "&#39;"
            [] Head(tokens) = "\"" -> "&#34;"
            [] OTHER -> Head(tokens)) \o HtmlText(Tail(tokens))

\* the line is <absolute path>/kubernetes/<file>:<line number>; the
\* kubernetes directory is the marker part or lies inside the file part
IsFrameLine(p) ==
    /\ p.lead = <<>> /\ p.dir[1] = "/"
    /\ p.marker = <<"/", "kubernetes", "/">> \/ p.file[1] = "_output"
    /\ " " \notin {p.file[i] : i \in 1..Len(p.file)}
    /\ p.sep = <<":">> /\ p.num = <<"123">> /\ p.trail = <<>>

\* the file of a frame line, below the innermost kubernetes directory
FramePath(p) ==
    IF p.file[1] = "_output" THEN SubSeq(p.file, 5, Len(p.file)) ELSE p.file

\* C20: do_linkify_stacktrace always HTML-escapes its input; without a
\* commit the result is the escaped text with no link; with a commit each
\* line of the form <absolute path>/kubernetes/<file>:<line number> is
\* wrapped in a link to that file and line at that commit, and every other
\* line stays as escaped text.
C20_LinkifyEscapesAndLinksFrames ==
    (probe.fn = "do_linkify_stacktrace" /\ probe.done)
    => LET p == probe.arg.parts
           inp == probe.arg.inp
           commit == probe.arg.commit
       IN /\ Len(probe.out) = Len(inp)
          /\ probe.out[1] =
                IF commit # "" /\ IsFrameLine(p)
                THEN "<a href=\"https://github.com/kubernetes/kubernetes/blob/"
                       \o commit \o "/" \o HtmlText(FramePath(p)) \o "#L123\">"
                       \o HtmlText(inp[1]) \o "</a>"
                ELSE HtmlText(inp[1])
          /\ Len(inp) = 2 => probe.out[2] = "&lt;a&gt;"
          /\ Len(inp) = 3
             => /\ probe.out[2] =
                      IF commit = "" THEN "/go/kubernetes/b.go:7"
                      ELSE "<a href=\"https://github.com/kubernetes/kubernetes/blob/"
                             \o commit \o "/b.go#L7\">/go/kubernetes/b.go:7</a>"
                /\ probe.out[3] = "&#39;&#34;"

\* the line of filters_test.py linked at VERSION, followed by '<a>' escaped
C20_Witness ==
    /\ probe.fn = "do_linkify_stacktrace" /\ probe.done
    /\ probe.arg.commit = "VERSION"
    /\ probe.arg.inp = << <<"/", "go", "/", "src", "/", "k8s.io", "/", "kubernetes", "/",
                            "test", "/", "example.go", ":", "123">>,
                          <<"<", "a", ">">> >>
    /\ probe.out = << "<a href=\"https://github.com/kubernetes/kubernetes/blob/VERSION/test/example.go#L123\">/go/src/k8s.io/kubernetes/test/example.go:123</a>",
                      "&lt;a&gt;" >>

----------------------------------------------------------------------------
(* The request handlers *)

BUCKET_WHITELIST == {"kubernetes-jenkins"}

\* if bucket not in BUCKET_WHITELIST: self.error(404); return
InWhitelistAny(bucket) == TRUE

InWhitelist(bucket) == bucket \in BUCKET_WHITELIST

\* the wrapped function a handler calls for /build/<bucket>/logs/kubernetes-e2e-gce/7,
\* /builds/<bucket>/logs/kubernetes-e2e-gce and /jobs/<bucket>/logs
HandlerCall(h, bucket) ==
    CASE h = "BuildHandler" ->
            <<"build_details", JobDir(bucket, "logs/", "kubernetes-e2e-gce") \o "7">>
      [] h = "BuildListHandler" ->
            <<"gcs_ls", JobDir(bucket, "logs/", "kubernetes-e2e-gce")>>
      [] h = "JobListHandler" -> <<"gcs_ls", JobsDir(bucket, "logs")>>

\* self.response.write(text)
ResponseWrite(r, text) == [r EXCEPT !.body = Append(@, text)]

\* webapp2.RequestHandler.error(code): sets the status and clears the response
ResponseError(r, code) == [r EXCEPT !.status = code, !.body = <<>>]

\* RenderingHandler.render(template, context)
Render(r, template, context) ==
    ResponseWrite([r EXCEPT !.template = template], context)

\* the characters of the names a listing holds
Chars(filename) ==
    LET job_dir == JobDir("kubernetes-jenkins", "logs/", "kubernetes-e2e-gce")
        chars == <<"/", "k", "u", "b", "e", "r", "n", "e", "t", "e", "s", "-",
                   "j", "e", "n", "k", "i", "n", "s", "/", "l", "o", "g", "s", "/",
                   "k", "u", "b", "e", "r", "n", "e", "t", "e", "s", "-", "e", "2",
                   "e", "-", "g", "c", "e", "/">>
    IN CASE filename = job_dir -> chars
         [] filename = job_dir \o "7/" -> chars \o <<"7", "/">>
         [] filename = job_dir \o "9/" -> chars \o <<"9", "/">>
         [] filename = job_dir \o "10/" -> chars \o <<"1", "0", "/">>

\* list.sort(key=..., reverse=...) with str keys: insertion, items with equal
\* keys keep their order
RECURSIVE Sorted(_, _, _)
Sorted(items, key, reverse) ==
    IF items = <<>> THEN <<>>
    ELSE LET rest == Sorted(SubSeq(items, 1, Len(items) - 1), key, reverse)
             x == items[Len(items)]
             Before(a, b) == IF reverse THEN StrLess(key[b], key[a])
                             ELSE StrLess(key[a], key[b])
             after == {i \in 1..Len(rest) : Before(x, rest[i])}
             at == IF after = {} THEN Len(rest) + 1
                   ELSE CHOOSE i \in after : \A j \in after : i <= j
         IN SubSeq(rest, 1, at - 1) \o <<x>> \o SubSeq(rest, at, Len(rest))

\* fstats.sort(key=lambda f: pad_numbers(f.filename), reverse=True)
SortBuildsUnpadded(fstats) ==
    Sorted(fstats, [f \in {fstats[i] : i \in 1..Len(fstats)} |-> Chars(f)], TRUE)

SortBuilds(fstats) ==
    Sorted(fstats, [f \in {fstats[i] : i \in 1..Len(fstats)} |-> pad_numbers(Chars(f))],
           TRUE)

\* fstats.sort(): GCSFileStat objects compare by filename
SortJobs(fstats) ==
    Sorted(fstats, [f \in {fstats[i] : i \in 1..Len(fstats)} |-> Chars(f)], FALSE)

\* a request as the router hands it to the handler: status 200, nothing written
NewResponse(h, bucket) ==
    [handler |-> h, bucket |-> bucket, phase |-> "called", status |-> 200,
     body |-> <<>>, template |-> "none", calls |-> 0]

\* get(...) up to the return of the wrapped function it calls
Get(w, h, bucket) ==
    /\ stack[w] = <<>>
    /\ response[w].phase # "called"
    /\ CallsMade < MaxCalls
    /\ IF ~InWhitelist(bucket)
       THEN /\ response' = [response EXCEPT ![w] =
                               [ResponseError(NewResponse(h, bucket), 404)
                                   EXCEPT !.phase = "done"]]
            /\ UNCHANGED <<stack, call>>
       ELSE /\ response' = [response EXCEPT ![w] =
                               [NewResponse(h, bucket) EXCEPT !.calls = 1]]
            /\ EnterWrapped(w, <<>>, HandlerCall(h, bucket)[1], HandlerCall(h, bucket)[2],
                            NewCall(w, HandlerCall(h, bucket)[1], HandlerCall(h, bucket)[2]))
    /\ UNCHANGED <<storage, cache, now, version, lastAdd, ticks, probe>>

\* BuildHandler.get after details = build_details(build_dir)
BuildPage(r, details) ==
    LET job_dir == JobDir(r.bucket, "logs/", "kubernetes-e2e-gce")
        versions == IF Truthy(details)
                    THEN {i \in 1..Len(details.started.doc) :
                             details.started.doc[i].key = "version"}
                    ELSE {}
        version_ == details.started.doc[CHOOSE i \in versions : TRUE].val
        \* started['version'].split('+')[-1]
        commit == IF version_ = "v1.3.0-alpha.1+abc123" THEN "abc123" ELSE version_
    IN IF ~Truthy(details)
       THEN ResponseError(
                ResponseWrite(r, "Unable to load build details from " \o job_dir), 404)
       ELSE IF versions = {} THEN ResponseError(r, 500)
       ELSE Render(r, "build.html",
                   [job_dir |-> job_dir, build_dir |-> job_dir \o "7",
                    job |-> "kubernetes-e2e-gce", build |-> "7", commit |-> commit,
                    started |-> details.started, finished |-> details.finished,
                    failures |-> details.failures])

\* the rest of get(...); an exception nobody caught is answered 500
Respond(w) ==
    /\ response[w].phase = "called"
    /\ stack[w] = <<>>
    /\ call[w].status \in {"returned", "raised"}
    /\ LET r == response[w]
           ret == call[w].ret
           job_dir == JobDir(r.bucket, "logs/", "kubernetes-e2e-gce")
           page == IF call[w].status = "raised" THEN ResponseError(r, 500)
                   ELSE CASE r.handler = "BuildHandler" -> BuildPage(r, ret)
                          [] r.handler = "BuildListHandler" ->
                                Render(r, "build_list.html",
                                       [job |-> "kubernetes-e2e-gce", job_dir |-> job_dir,
                                        fstats |-> SortBuilds(ret.items)])
                          [] r.handler = "JobListHandler" ->
                                Render(r, "job_list.html",
                                       [jobs_dir |-> JobsDir(r.bucket, "logs"),
                                        fstats |-> SortJobs(ret.items)])
       IN response' = [response EXCEPT ![w] = [page EXCEPT !.phase = "done"]]
    /\ UNCHANGED <<storage, cache, now, version, stack, call, lastAdd, ticks, probe>>

InitHandlers ==
    /\ storage \in BuildBuckets
    /\ cache = <<>>
    /\ now = 0
    /\ version = [w \in Workers |-> "v1"]
    /\ stack = [w \in Workers |-> <<>>]
    /\ call = [w \in Workers |-> IdleCall]
    /\ lastAdd = <<>>
    /\ ticks = 0
    /\ response = [w \in Workers |-> IdleResponse]
    /\ probe = NoProbe

NextHandlers ==
    \/ \E h \in {"BuildHandler", "BuildListHandler", "JobListHandler"} :
          \E b \in {"kubernetes-jenkins", "kubernetes-private"} : Get(1, h, b)
    \/ Respond(1)
    \/ GcsReadFunc(1, SpecFaults)
    \/ GcsLsFunc(1, SpecFaults)
    \/ Add(1)
    \/ BdStarted(1)
    \/ BdFinished(1)
    \/ BdCheck(1)
    \/ BdLoop(1)
    \/ BdJunit(1)
    \/ \E d \in BuildTickSteps : Idle(1) /\ response[1].phase # "called" /\ Tick(d)

SpecHandlers == InitHandlers /\ [][NextHandlers]_vars

\* C14: a request to the build, build-list or job-list handler whose bucket
\* is not in the allow-set is answered 404 with nothing written, and the
\* step that answers it makes no wrapped call: no storage read or listing,
\* no cache read, no cache write.
C14_UnlistedBucketRejected ==
    [][\A w \in Workers :
          (response'[w] # response[w] /\ response'[w].bucket # "kubernetes-jenkins")
          => /\ response'[w].phase = "done"
             /\ response'[w].status = 404
             /\ response'[w].body = <<>>
             /\ response'[w].template = "none"
             /\ response'[w].calls = 0
             /\ UNCHANGED <<storage, cache, lastAdd, call, stack>>]_vars

\* a build-list request for an unlisted bucket rejected while the cache
\* holds entries of earlier requests
C14_Witness ==
    \E w \in Workers :
        /\ response[w].handler = "BuildListHandler"
        /\ response[w].bucket = "kubernetes-private"
        /\ response[w].status = 404
        /\ call[w].status = "returned"
        /\ cache # <<>>

\* C15: when build_details returns nothing for the build, the build
\* handler's final response carries status 404 together with the 'Unable to
\* load build details' message in its body, and no template is rendered.
C15_UnavailableBuildAnswered ==
    \A w \in Workers :
        (/\ response[w].phase = "done"
         /\ response[w].handler = "BuildHandler"
         /\ response[w].bucket = "kubernetes-jenkins"
         /\ call[w].status = "returned"
         /\ ~Truthy(call[w].ret))
        => /\ response[w].status = 404
           /\ response[w].template = "none"
           /\ response[w].body =
                 <<"Unable to load build details from /kubernetes-jenkins/logs/kubernetes-e2e-gce/">>

\* C21: for a duration d >= 0 in seconds do_duration returns '<H>h<M>m' with
\* H = d div 3600 and M = (d mod 3600) div 60 when d >= 3600; '<M>m<S>s'
\* with M = d div 60 and S = d mod 60 truncated when 60 <= d < 3600; and
\* otherwise the seconds only, with two decimals when d < 10 and truncated
\* to a whole number when 10 <= d < 60.
C21_DurationFormat ==
    (probe.fn = "do_duration" /\ probe.done)
    => LET d == probe.arg.ms \div 1000
           hundredths == (probe.arg.ms + 5) \div 10
       IN probe.out =
            IF d >= 3600
            THEN IntToStr(d \div 3600) \o "h" \o IntToStr((d % 3600) \div 60) \o "m"
            ELSE IF d >= 60 THEN IntToStr(d \div 60) \o "m" \o IntToStr(d % 60) \o "s"
            ELSE IF d >= 10 THEN IntToStr(d) \o "s"
            ELSE IntToStr(hundredths \div 100) \o "." \o Fmt02d(hundredths % 100) \o "s"

\* 78.2 s shown as filters_test.py expects it
C21_Witness ==
    /\ probe.fn = "do_duration" /\ probe.done
    /\ probe.arg.ms = 78200 /\ probe.out = "1m18s"

\* the slug built in one pass: characters that are neither word characters,
\* whitespace nor hyphens vanish, whitespace that follows whitespace among
\* the characters kept vanishes too, other whitespace is a hyphen
RECURSIVE SlugOf(_, _)
SlugOf(s, afterSpace) ==
    LET LowerWord == {"a", "b", "c", "d", "e", "f", "g", "h", "i", "j", "k", "l", "m",
                      "n", "o", "p", "q", "r", "s", "t", "u", "v", "w", "x", "y", "z",
                      "0", "1", "2", "3", "4", "5", "6", "7", "8", "9", "_"}
        c == Head(s)
    IN IF s = <<>> THEN <<>>
       ELSE IF c \in {" ", "\t", "\n", "\r"}
       THEN (IF afterSpace THEN <<>> ELSE <<"-">>) \o SlugOf(Tail(s), TRUE)
       ELSE IF c = "-" \/ c \in LowerWord THEN <<c>> \o SlugOf(Tail(s), FALSE)
       ELSE IF c \in {"T", "F", "B"}
       THEN <<CASE c = "T" -> "t" [] c = "F" -> "f" [] c = "B" -> "b">>
                \o SlugOf(Tail(s), FALSE)
       ELSE SlugOf(Tail(s), afterSpace)

\* C22: do_slugify returns a lower-case string made only of word
\* characters and hyphens: every character other than a word character,
\* whitespace or a hyphen is removed, and each run of whitespace then
\* becomes a single hyphen.
C22_SlugOnlyWordCharsAndHyphens ==
    (probe.fn = "do_slugify" /\ probe.done)
    => /\ \A i \in 1..Len(probe.out) :
              probe.out[i] \in {"a", "b", "c", "e", "f", "k", "o", "s", "t", "8", "_", "-"}
       /\ probe.out = SlugOf(probe.arg.inp, FALSE)

\* '[k8s] Test Foo' becomes 'k8s-test-foo'
C22_Witness ==
    /\ probe.fn = "do_slugify" /\ probe.done
    /\ probe.arg.inp = <<"[", "k", "8", "s", "]", " ", "T", "e", "s", "t", " ", "F", "o", "o">>
    /\ probe.out = <<"k", "8", "s", "-", "t", "e", "s", "t", "-", "f", "o", "o">>

\* the first shard number of the build that a read of storage finds absent
RECURSIVE FirstAbsent(_)
FirstAbsent(n) ==
    IF n >= XRangeStop \/ Absent(JunitPath(BuildDir, n)) THEN n ELSE FirstAbsent(n + 1)

\* C23: objects being only ever added to storage, whenever a live positive
\* build-details cache entry exists for a build path, its failures list
\* equals the list a fresh uncached aggregation of the path would produce
\* from the current storage contents.
C23_PositiveEntryIsFresh ==
    \A w \in Workers :
        (/\ EntryLive(cache, now, DetailsKey(w))
         /\ Truthy(cache[DetailsKey(w)].value))
        => cache[DetailsKey(w)].value.failures = FailuresUpTo(FirstAbsent(XRangeStart) - 1)

\* both markers of the build are in storage, well-formed
MarkersStored ==
    /\ ~Absent(StartedPath(BuildDir)) /\ storage[StartedPath(BuildDir)] = JsonDoc
    /\ ~Absent(FinishedPath(BuildDir)) /\ storage[FinishedPath(BuildDir)] = JsonDoc

\* the aggregation in progress found a marker missing and is about to
\* store and return unavailable
Unavailable(w) == At(w, "build_details", "add") /\ Top(w).data = None

\* the times the clock can show
ClockTimes == {a + b : a \in {0} \cup BuildTickSteps, b \in {0} \cup BuildTickSteps}

C25_ReturnedValueProvenance ==
    [][/\ \A w \in Workers :
            /\ (call'[w].ncalls = call[w].ncalls + 1 /\ call'[w].status = "returned")
               => LET k == <<version[w], Prefix(call'[w].op) \o call'[w].arg>>
                  IN /\ call'[w].invoked = 0
                     /\ EntryLive(cache, now, k)
                     /\ call'[w].ret = cache[k].value
            /\ (stack[w] # <<>> /\ stack'[w] = <<>> /\ call'[w].status = "returned")
               => /\ Top(w).op = call[w].op /\ Top(w).arg = call[w].arg
                  /\ call'[w].ret = Top(w).data
            /\ (/\ stack[w] # <<>> /\ Top(w).pc = "func"
                /\ stack'[w] # <<>> /\ stack'[w][Len(stack'[w])].pc = "add")
               => LET a == Top(w).arg
                      data == stack'[w][Len(stack'[w])].data
                  IN IF Top(w).op = "gcs_read"
                     THEN data = None \/ (~Absent(a) /\ data = storage[a])
                     ELSE data = PyList(ListBucket(a))
       /\ \A k \in DOMAIN cache' :
            (k \notin DOMAIN cache \/ cache'[k] # cache[k])
            => \E w \in Workers :
                  /\ stack[w] # <<>> /\ Top(w).pc = "add"
                  /\ k = <<version[w], Prefix(Top(w).op) \o Top(w).arg>>
                  /\ cache'[k].value = Top(w).data]_vars

\* a worker served the object another worker of its version read and
\* stored, while a worker of the other version would have to read it itself
C25_Witness ==
    /\ version[1] = version[2]
    /\ call[1].status = "returned" /\ call[1].invoked = 1 /\ call[1].op = call[2].op
    /\ call[2].status = "returned" /\ call[2].invoked = 0 /\ call[2].ret = JsonDoc
    /\ ~EntryLive(cache, now, <<"v2", Prefix(call[2].op) \o call[2].arg>>)

\* an empty listing or a zero-length object
FalsyNotNone(v) == v # None /\ ~Truthy(v)

\* C26: a falsy result that is not None (an empty listing from gcs_ls, a
\* zero-length object from gcs_read) is stored with the negative TTL, and
\* a call that finds it live under its key returns it without invoking the
\* underlying function.
C26_FalsyResultCachedAndServed ==
    /\ \A k \in DOMAIN cache :
          FalsyNotNone(cache[k].value) => cache[k].expiry <= now + DefaultNegExp
    /\ \A w \in Workers :
          (call[w].pre.present /\ FalsyNotNone(call[w].pre.value))
          => /\ call[w].status = "returned"
             /\ call[w].invoked = 0
             /\ call[w].reads = <<>>
             /\ call[w].ret = call[w].pre.value

\* a worker served the zero-length object from the entry an earlier call
\* left, which expires a minute after it was stored
C26_Witness ==
    \E w \in Workers :
        /\ call[w].op = "gcs_read"
        /\ call[w].pre.present /\ call[w].pre.value = EmptyStr
        /\ call[w].status = "returned" /\ call[w].ret = EmptyStr
        /\ call[w].invoked = 0
        /\ now = 30
        /\ cache[<<version[w], Prefix("gcs_read") \o call[w].arg>>].expiry = DefaultNegExp

\* C27: the cache keys 'gs://' + a, 'gs-ls://' + b and 'build-details://'
\* + c are pairwise distinct for all arguments a, b and c: two different
\* operations never share a key.
C27_KeysOfOperationsDistinct ==
    (probe.fn = "key" /\ probe.done) => probe.out[1] # probe.out[2]

\* gcs_read of '-ls://x' and gcs_ls of '://x': 'gs://-ls://x' and
\* 'gs-ls://://x'
C27_Witness ==
    /\ probe.fn = "key" /\ probe.done
    /\ probe.arg = [ops |-> <<"gcs_read", "gcs_ls">>, a |-> "-ls://x", b |-> "://x"]
    /\ probe.out = <<"gs://-ls://x", "gs-ls://://x">>

\* C28: every build_details call terminates after a bounded number of
\* storage reads: at most two marker reads plus one read per shard index
\* up to the fixed bound, never more than 2 + 99, provided each read
\* returns.
C28_TerminatesAfterBoundedReads ==
    /\ [](Len(call[1].reads) <= 2 + 99)
    /\ [](Len(JunitReads(1)) < XRangeStop /\ Len(call[1].reads) <= 2 + Len(JunitReads(1)))
    /\ <>Done(1)

\* an aggregation that read both markers and every shard the loop reaches
C28_Witness ==
    /\ Done(1) /\ call[1].status = "returned"
    /\ Len(call[1].reads) = 2 + (XRangeStop - XRangeStart)
    /\ ~Absent(JunitPath(BuildDir, XRangeStop))

\* the build number a name of the job's listing ends in
BuildNumber(filename) ==
    CASE filename = "/kubernetes-jenkins/logs/kubernetes-e2e-gce/7/" -> 7
      [] filename = "/kubernetes-jenkins/logs/kubernetes-e2e-gce/9/" -> 9
      [] filename = "/kubernetes-jenkins/logs/kubernetes-e2e-gce/10/" -> 10

\* the entry the listing of the job's builds is cached under
ListingKey(w) ==
    <<version[w], "gs-ls:///kubernetes-jenkins/logs/kubernetes-e2e-gce/">>

\* C29: the build-list handler presents the entries of the listing in
\* descending natural order of their file names (build 10 before build 9),
\* and the sort leaves the cached listing entry unchanged, in the order
\* the bucket listed it.
C29_BuildsInDescendingNaturalOrder ==
    \A w \in Workers :
        (/\ response[w].phase = "done"
         /\ response[w].handler = "BuildListHandler"
         /\ response[w].status = 200)
        => LET fstats == response[w].body[1].fstats
               listed == call[w].ret.items
           IN /\ response[w].template = "build_list.html"
              /\ Len(fstats) = Len(listed)
              /\ {fstats[i] : i \in 1..Len(fstats)} = {listed[i] : i \in 1..Len(listed)}
              /\ \A i \in 1..(Len(fstats) - 1) :
                    BuildNumber(fstats[i]) > BuildNumber(fstats[i + 1])
              /\ EntryLive(cache, now, ListingKey(w))
                 => cache[ListingKey(w)].value.items
                      = <<"/kubernetes-jenkins/logs/kubernetes-e2e-gce/10/",
                          "/kubernetes-jenkins/logs/kubernetes-e2e-gce/7/",
                          "/kubernetes-jenkins/logs/kubernetes-e2e-gce/9/">>

\* builds 10, 9, 7 on the page while the entry holds them as listed
C29_Witness ==
    /\ response[1].phase = "done" /\ response[1].handler = "BuildListHandler"
    /\ response[1].status = 200
    /\ response[1].body[1].fstats
          = <<"/kubernetes-jenkins/logs/kubernetes-e2e-gce/10/",
              "/kubernetes-jenkins/logs/kubernetes-e2e-gce/9/",
              "/kubernetes-jenkins/logs/kubernetes-e2e-gce/7/">>
    /\ EntryLive(cache, now, ListingKey(1))
    /\ call[1].invoked = 0

\* the 'starts at' and 'ends at' lines of a log, in order
Events(lines) == SelectSeq(lines, LAMBDA l : l.kind # "other")

\* starts and ends alternate strictly, each end naming the test and node
\* of the start before it
Alternates(ev) ==
    \A j \in 1..Len(ev) :
        IF j % 2 = 1 THEN ev[j].kind = "start"
        ELSE /\ ev[j].kind = "end"
             /\ ev[j].test = ev[j - 1].test
             /\ ev[j].node = ev[j - 1].node

====
